---------------------------- MODULE Spec2Model ----------------------------
(***************************************************************************)
(* Model of the "Sekante -> Tangente" applet (App.svelte).                 *)
(*                                                                         *)
(* The component holds one mutable input, deltaX, a fixed anchor x0, and a *)
(* chain of reactive declarations ($:) that derive slopes, display         *)
(* strings, three polylines, two marker points and an error colour.        *)
(*                                                                         *)
(* Numbers.  JavaScript numbers are modelled as exact rationals <<n, d>>   *)
(* with d >= 0; d = 0 stands for the non-finite results of a division by   *)
(* zero (<<1,0>> = Infinity, <<-1,0>> = -Infinity, <<0,0>> = NaN).  The    *)
(* arithmetic operators return fractions as computed; every function of    *)
(* the component and every reactive declaration returns its result in      *)
(* lowest terms (Norm), so equal numbers held in variables are equal       *)
(* values.  Binary rounding of IEEE doubles is not modelled.               *)
(* Strings built from numbers are modelled by the numbers they print:      *)
(* toFixed(k) by <<round(x * 10^k), k>>, "rgb(r,g,b)" by <<r, g, b>>, a    *)
(* polyline "x,y x,y ..." by the sequence of its <<x, y>> pairs.           *)
(***************************************************************************)
EXTENDS Integers, Sequences, FiniteSets

VARIABLES
    deltaX,          \* let deltaX: current step size
    x0,              \* let x0: anchor point
    slope_sek,       \* $: secant slope
    slope_tan,       \* $: tangent slope
    slopeDisplay,    \* $: slope_sek.toFixed(4)
    errorDisplay,    \* $: |slope_sek - slope_tan|.toFixed(4)
    funcPoints,      \* $: polyline of f
    sekantePoints,   \* $: polyline of the secant
    tangentePoints,  \* $: polyline of the tangent
    px0,             \* $: marker P1
    px1,             \* $: marker P2
    errorRatio,      \* $: min(1, error / 3)
    errorColor,      \* $: interpolateColor(errorRatio)
    lastEvent,       \* history: the last input event handled, [kind, value]
    runOrder,        \* history: reactive declarations run by the last update, in order
    probe,           \* input of a pure-function probe
    result           \* output of a pure-function probe

vars == <<deltaX, x0, slope_sek, slope_tan, slopeDisplay, errorDisplay,
          funcPoints, sekantePoints, tangentePoints, px0, px1,
          errorRatio, errorColor, lastEvent, runOrder, probe, result>>

-----------------------------------------------------------------------------
(* Rational arithmetic                                                     *)

RECURSIVE GCD(_, _)
GCD(a, b) == IF b = 0 THEN a ELSE GCD(b, a % b)

IAbs(n) == IF n < 0 THEN -n ELSE n

\* the fraction a in lowest terms, denominator >= 0
Norm(a) ==
    LET g == GCD(IAbs(a[1]), IAbs(a[2]))
    IN  IF g = 0 THEN <<0, 0>>
        ELSE IF a[2] < 0 THEN <<(-a[1]) \div g, (-a[2]) \div g>>
        ELSE <<a[1] \div g, a[2] \div g>>

Rat(n, d) == Norm(<<n, d>>)
Num(n) == <<n, 1>>
\* the values a number can take
Number == Int \X Int

Add(a, b) == <<a[1] * b[2] + b[1] * a[2], a[2] * b[2]>>
Sub(a, b) == <<a[1] * b[2] - b[1] * a[2], a[2] * b[2]>>
Mul(a, b) == <<a[1] * b[1], a[2] * b[2]>>
Div(a, b) ==
    IF b[1] < 0 THEN <<(-a[1]) * b[2], a[2] * (-b[1])>>
    ELSE <<a[1] * b[2], a[2] * b[1]>>

\* comparisons of finite numbers; any comparison with NaN is false
Less(a, b) == a[2] # 0 /\ b[2] # 0 /\ a[1] * b[2] < b[1] * a[2]
Leq(a, b)  == a[2] # 0 /\ b[2] # 0 /\ a[1] * b[2] <= b[1] * a[2]

IsFinite(a) == a[2] # 0
\* floor of a finite number
Floor(a) == a[1] \div a[2]

RECURSIVE Pow10(_)
Pow10(k) == IF k = 0 THEN 1 ELSE 10 * Pow10(k - 1)

MathAbs(a) == <<IAbs(a[1]), a[2]>>
\* Math.min: NaN when either argument is NaN
MathMin(a, b) ==
    IF a = <<0, 0>> \/ b = <<0, 0>> THEN <<0, 0>>
    ELSE IF Less(b, a) \/ b = <<-1, 0>> THEN b ELSE a
\* Math.round: nearest integer, halves towards +Infinity
MathRound(a) == IF IsFinite(a) THEN Floor(Add(a, <<1, 2>>)) ELSE a
\* Number.prototype.toFixed(k): the decimal string with k fraction digits,
\* modelled as <<m, k>> for the string that reads m / 10^k
\* (a non-finite number prints as itself)
ToFixed(a, k) ==
    LET s == Mul(a, Num(Pow10(k)))
    IN  IF ~IsFinite(a) THEN a
        ELSE <<(IF s[1] < 0 THEN -MathRound(MathAbs(s)) ELSE MathRound(s)), k>>

-----------------------------------------------------------------------------
(* Constants and functions of the component                                *)

\* sign slip in the linear term
f_plus(x) == Norm(Add(Add(Mul(x, x), Mul(Num(2), x)), Num(3)))
f(x)  == Norm(Add(Sub(Mul(x, x), Mul(Num(2), x)), Num(3)))
df(x) == Norm(Sub(Mul(Num(2), x), Num(2)))

VW == 600
VH == 400
PAD == [top |-> 20, right |-> 20, bottom |-> 50, left |-> 55]
xMin == 0
xMax == 4
yMin == 0
yMax == 9
plotW == VW - PAD.left - PAD.right
plotH == VH - PAD.top - PAD.bottom

toSvgX(x) ==
    Norm(Add(Num(PAD.left),
             Mul(Div(Sub(x, Num(xMin)), Num(xMax - xMin)), Num(plotW))))
\* vertical flip forgotten
toSvgY_noflip(y) ==
    Norm(Add(Num(PAD.top),
             Mul(Div(Sub(y, Num(yMin)), Num(yMax - yMin)), Num(plotH))))
toSvgY(y) ==
    Norm(Add(Num(PAD.top),
             Mul(Sub(Num(1), Div(Sub(y, Num(yMin)), Num(yMax - yMin))),
                 Num(plotH))))

\* the string "x1,y1 x2,y2 ..." is modelled as the sequence of its pairs
\* (the callback fn is modelled as a function on numbers)
makeLine(xArr, fn) ==
    [i \in DOMAIN xArr |-> <<toSvgX(xArr[i]), toSvgY(fn[xArr[i]])>>]

\* spacing taken over 298 intervals
xs_298 == [j \in 1..300 |->
          Norm(Add(Num(xMin), Div(Mul(Num(j - 1), Num(xMax - xMin)), Num(298))))]

\* Array.from({length: 300}, (_, i) => ...): index j here is i + 1
xs == [j \in 1..300 |->
          Norm(Add(Num(xMin), Div(Mul(Num(j - 1), Num(xMax - xMin)), Num(299))))]

interpolateColor(t) ==
    LET r == MathRound(Add(Num(39),  Mul(t, Num(192 - 39))))
        g == MathRound(Add(Num(174), Mul(t, Num(57 - 174))))
        b == MathRound(Add(Num(96),  Mul(t, Num(43 - 96))))
    IN  <<r, g, b>>

DX_MIN  == Rat(1, 100)
DX_MAX  == Num(2)
DX_STEP == Rat(1, 100)

\* values an <input type="range" min max step> can deliver
SliderValues ==
    LET n == Floor(Div(Sub(DX_MAX, DX_MIN), DX_STEP))
    IN  {Norm(Add(DX_MIN, Mul(Num(k), DX_STEP))) : k \in 0..n}

\* last preset 0 instead of 0.01
Presets_zero == <<Num(2), Num(1), Rat(1, 2), Rat(1, 10), Num(0)>>
Presets == <<Num(2), Num(1), Rat(1, 2), Rat(1, 10), Rat(1, 100)>>

\* tolerance 0.05 instead of 0.005
isActive_wide(dx, preset) == Less(MathAbs(Sub(dx, preset)), Rat(5, 100))

\* class:active of a preset button
isActive(dx, preset) == Less(MathAbs(Sub(dx, preset)), Rat(5, 1000))

-----------------------------------------------------------------------------
(* Reactive declarations ($:), one operator per right-hand side            *)

calc_slope_sek(x, dx) == Norm(Div(Sub(f(Norm(Add(x, dx))), f(x)), dx))
calc_slope_tan(x) == df(x)
calc_slopeDisplay(sek) == ToFixed(sek, 4)
calc_errorDisplay(sek, tan) == ToFixed(MathAbs(Sub(sek, tan)), 4)
calc_funcPoints == makeLine(xs, [t \in Number |-> f(t)])
\* secant drawn through the origin of x instead of through x0
calc_sekantePoints_unanchored(x, sek) ==
    makeLine(xs, [t \in Number |-> Add(f(x), Mul(sek, t))])
calc_sekantePoints(x, sek) ==
    makeLine(xs, [t \in Number |-> Add(f(x), Mul(sek, Sub(t, x)))])
calc_tangentePoints(x, tan) ==
    makeLine(xs, [t \in Number |-> Add(f(x), Mul(tan, Sub(t, x)))])
calc_px0(x) == [x |-> toSvgX(x), y |-> toSvgY(f(x))]
calc_px1(x, dx) ==
    [x |-> toSvgX(Norm(Add(x, dx))), y |-> toSvgY(f(Norm(Add(x, dx))))]
\* division by 3 forgotten
calc_errorRatio_undivided(sek, tan) ==
    MathMin(Num(1), Norm(MathAbs(Sub(sek, tan))))
\* cap at 1 forgotten
calc_errorRatio_uncapped(sek, tan) ==
    Norm(Div(MathAbs(Sub(sek, tan)), Num(3)))
calc_errorRatio(sek, tan) ==
    MathMin(Num(1), Norm(Div(MathAbs(Sub(sek, tan)), Num(3))))
calc_errorColor(ratio) == interpolateColor(ratio)

\* px1 not registered as depending on deltaX
Reactive_stalePx1 == <<
    [target |-> "slope_sek",      deps |-> {"x0", "deltaX"}],
    [target |-> "slope_tan",      deps |-> {"x0"}],
    [target |-> "slopeDisplay",   deps |-> {"slope_sek"}],
    [target |-> "errorDisplay",   deps |-> {"slope_sek", "slope_tan"}],
    [target |-> "funcPoints",     deps |-> {}],
    [target |-> "sekantePoints",  deps |-> {"x0", "slope_sek"}],
    [target |-> "tangentePoints", deps |-> {"x0", "slope_tan"}],
    [target |-> "px0",            deps |-> {"x0"}],
    [target |-> "px1",            deps |-> {"x0"}],
    [target |-> "errorRatio",     deps |-> {"slope_sek", "slope_tan"}],
    [target |-> "errorColor",     deps |-> {"errorRatio"}] >>

\* error colour declared ahead of the polylines and markers
Reactive_colorFirst == <<
    [target |-> "slope_sek",      deps |-> {"x0", "deltaX"}],
    [target |-> "slope_tan",      deps |-> {"x0"}],
    [target |-> "slopeDisplay",   deps |-> {"slope_sek"}],
    [target |-> "errorDisplay",   deps |-> {"slope_sek", "slope_tan"}],
    [target |-> "errorRatio",     deps |-> {"slope_sek", "slope_tan"}],
    [target |-> "errorColor",     deps |-> {"errorRatio"}],
    [target |-> "funcPoints",     deps |-> {}],
    [target |-> "sekantePoints",  deps |-> {"x0", "slope_sek"}],
    [target |-> "tangentePoints", deps |-> {"x0", "slope_tan"}],
    [target |-> "px0",            deps |-> {"x0"}],
    [target |-> "px1",            deps |-> {"x0", "deltaX"}] >>

\* The declarations in the order the compiler runs them (source order,
\* which is a topological order here), each with the variables it reads.
Reactive == <<
    [target |-> "slope_sek",      deps |-> {"x0", "deltaX"}],
    [target |-> "slope_tan",      deps |-> {"x0"}],
    [target |-> "slopeDisplay",   deps |-> {"slope_sek"}],
    [target |-> "errorDisplay",   deps |-> {"slope_sek", "slope_tan"}],
    [target |-> "funcPoints",     deps |-> {}],
    [target |-> "sekantePoints",  deps |-> {"x0", "slope_sek"}],
    [target |-> "tangentePoints", deps |-> {"x0", "slope_tan"}],
    [target |-> "px0",            deps |-> {"x0"}],
    [target |-> "px1",            deps |-> {"x0", "deltaX"}],
    [target |-> "errorRatio",     deps |-> {"slope_sek", "slope_tan"}],
    [target |-> "errorColor",     deps |-> {"errorRatio"}] >>

depsOf(t) == (CHOOSE d \in {Reactive[i] : i \in DOMAIN Reactive} : d.target = t).deps

\* $$invalidate marks a variable dirty when the value assigned to it differs
\* from the value it holds.  Only variables some declaration reads matter.
invalidated(name) ==
    CASE name = "deltaX"     -> deltaX' # deltaX
      [] name = "x0"         -> x0' # x0
      [] name = "slope_sek"  -> slope_sek' # slope_sek
      [] name = "slope_tan"  -> slope_tan' # slope_tan
      [] name = "errorRatio" -> errorRatio' # errorRatio

\* the guard `if ($$self.$$.dirty & mask)` in front of a declaration
runs(t) == \E name \in depsOf(t) : invalidated(name)

\* $$.update: every declaration whose guard holds runs, in order; the
\* others keep their value.  runOrder records the ones that ran.  Nothing
\* is scheduled when no variable was invalidated.
update ==
    /\ slope_sek' = IF runs("slope_sek")
                    THEN calc_slope_sek(x0', deltaX') ELSE slope_sek
    /\ slope_tan' = IF runs("slope_tan")
                    THEN calc_slope_tan(x0') ELSE slope_tan
    /\ slopeDisplay' = IF runs("slopeDisplay")
                       THEN calc_slopeDisplay(slope_sek') ELSE slopeDisplay
    /\ errorDisplay' = IF runs("errorDisplay")
                       THEN calc_errorDisplay(slope_sek', slope_tan')
                       ELSE errorDisplay
    /\ funcPoints' = IF runs("funcPoints") THEN calc_funcPoints ELSE funcPoints
    /\ sekantePoints' = IF runs("sekantePoints")
                        THEN calc_sekantePoints(x0', slope_sek')
                        ELSE sekantePoints
    /\ tangentePoints' = IF runs("tangentePoints")
                         THEN calc_tangentePoints(x0', slope_tan')
                         ELSE tangentePoints
    /\ px0' = IF runs("px0") THEN calc_px0(x0') ELSE px0
    /\ px1' = IF runs("px1") THEN calc_px1(x0', deltaX') ELSE px1
    /\ errorRatio' = IF runs("errorRatio")
                     THEN calc_errorRatio(slope_sek', slope_tan')
                     ELSE errorRatio
    /\ errorColor' = IF runs("errorColor")
                     THEN calc_errorColor(errorRatio') ELSE errorColor
    /\ runOrder' = IF invalidated("deltaX") \/ invalidated("x0")
                   THEN SelectSeq([i \in DOMAIN Reactive |-> Reactive[i].target],
                                  runs)
                   ELSE runOrder

\* instance.$$.update() at construction: every declaration runs once
init ==
    /\ slope_sek = calc_slope_sek(x0, deltaX)
    /\ slope_tan = calc_slope_tan(x0)
    /\ slopeDisplay = calc_slopeDisplay(slope_sek)
    /\ errorDisplay = calc_errorDisplay(slope_sek, slope_tan)
    /\ funcPoints = calc_funcPoints
    /\ sekantePoints = calc_sekantePoints(x0, slope_sek)
    /\ tangentePoints = calc_tangentePoints(x0, slope_tan)
    /\ px0 = calc_px0(x0)
    /\ px1 = calc_px1(x0, deltaX)
    /\ errorRatio = calc_errorRatio(slope_sek, slope_tan)
    /\ errorColor = calc_errorColor(errorRatio)

-----------------------------------------------------------------------------
(* Input events                                                            *)

MaxSliderJump == 1

\* the assignment a handler makes
assign(name, value) ==
    /\ deltaX' = IF name = "deltaX" THEN value ELSE deltaX
    /\ x0' = IF name = "x0" THEN value ELSE x0

\* bind:value={deltaX} on the range input: deltaX = to_number(this.value).
\* One input event moves the thumb by at most MaxSliderJump steps.
sliderHandler(v) == [name |-> "deltaX", value |-> v]
SliderInput(v) ==
    /\ Leq(MathAbs(Sub(v, deltaX)), Mul(Num(MaxSliderJump), DX_STEP))
    /\ assign(sliderHandler(v).name, sliderHandler(v).value)
    /\ update
    /\ lastEvent' = [kind |-> "slider", value |-> v]
    /\ UNCHANGED <<probe, result>>

\* click handler writing the anchor instead of the step size
presetHandler_x0(preset) == [name |-> "x0", value |-> preset]

\* on:click={() => deltaX = preset}
presetHandler(preset) == [name |-> "deltaX", value |-> preset]
PresetClick(i) ==
    /\ assign(presetHandler(Presets[i]).name, presetHandler(Presets[i]).value)
    /\ update
    /\ lastEvent' = [kind |-> "preset", value |-> Presets[i]]
    /\ UNCHANGED <<probe, result>>

\* new App({target}): the script block runs, then the first update
mounted ==
    /\ deltaX = Rat(3, 2)
    /\ x0 = Num(2)
    /\ init
    /\ lastEvent = [kind |-> "none", value |-> <<>>]
    /\ runOrder = <<>>

Init ==
    /\ mounted
    /\ probe = <<>>
    /\ result = <<>>

\* the preset buttons that carry class "active", by index
active == {i \in DOMAIN Presets : isActive(deltaX, Presets[i])}

\* the arguments f is called with by the declarations: f(x0 + deltaX) and
\* f(x0) in slope_sek, the secant and tangent lines, px0 and px1; f over
\* xs in funcPoints
fArgs == {xs[i] : i \in DOMAIN xs} \cup {x0, Norm(Add(x0, deltaX))}

Next ==
    \/ \E v \in SliderValues : SliderInput(v)
    \/ \E i \in DOMAIN Presets : PresetClick(i)

Spec == Init /\ [][Next]_vars

-----------------------------------------------------------------------------
(* Probes of the pure functions: the component is mounted, a pair of       *)
(* inputs is drawn, and the functions are applied to both.                 *)

ColorDen == 4
ColorMax == 14

\* secant slopes 2 + k / ColorDen around the tangent slope 2
ColorProbes ==
    LET S == {Norm(Add(Num(2), <<k, ColorDen>>)) : k \in -ColorMax..ColorMax}
    IN  S \X S

InitColor ==
    /\ mounted
    /\ result = <<>>
    /\ probe \in ColorProbes

\* $: errorRatio and $: errorColor on the probed secant slopes
ProbeColor ==
    /\ result = <<>>
    /\ result' = [i \in 1..2 |->
                    LET ratio == calc_errorRatio(probe[i], slope_tan)
                    IN  [ratio |-> ratio, color |-> calc_errorColor(ratio)]]
    /\ UNCHANGED <<deltaX, x0, slope_sek, slope_tan, slopeDisplay,
                   errorDisplay, funcPoints, sekantePoints, tangentePoints,
                   px0, px1, errorRatio, errorColor, lastEvent, runOrder,
                   probe>>

NextColor == ProbeColor

SpecColor == InitColor /\ [][NextColor]_vars

MapDen == 2
MapMax == 4

\* coordinates k / MapDen from below 0 to above yMax
MapProbes ==
    LET S == {Norm(<<k, MapDen>>) : k \in -MapMax..(yMax * MapDen + MapMax)}
    IN  S \X S

InitMap ==
    /\ mounted
    /\ result = <<>>
    /\ probe \in MapProbes

ProbeMap ==
    /\ result = <<>>
    /\ result' = [i \in 1..2 |->
                    [x |-> toSvgX(probe[i]), y |-> toSvgY(probe[i])]]
    /\ UNCHANGED <<deltaX, x0, slope_sek, slope_tan, slopeDisplay,
                   errorDisplay, funcPoints, sekantePoints, tangentePoints,
                   px0, px1, errorRatio, errorColor, lastEvent, runOrder,
                   probe>>

NextMap == ProbeMap

SpecMap == InitMap /\ [][NextMap]_vars

-----------------------------------------------------------------------------
(* Properties                                                              *)

\* the derived variables, as one record
derived ==
    [slope_sek |-> slope_sek, slope_tan |-> slope_tan,
     slopeDisplay |-> slopeDisplay, errorDisplay |-> errorDisplay,
     funcPoints |-> funcPoints, sekantePoints |-> sekantePoints,
     tangentePoints |-> tangentePoints, px0 |-> px0, px1 |-> px1,
     errorRatio |-> errorRatio, errorColor |-> errorColor]

\* C1: in every reachable state 0.01 <= deltaX <= 2.0, so deltaX is never 0
\* and the secant slope is a finite number; deltaX changes only in a slider
\* or preset event, to the value that event delivers.
C1_DeltaXBounded ==
    /\ [](/\ Leq(Rat(1, 100), deltaX)
          /\ Leq(deltaX, Num(2))
          /\ deltaX # Num(0)
          /\ IsFinite(slope_sek))
    /\ [][deltaX' # deltaX =>
             /\ lastEvent'.kind \in {"slider", "preset"}
             /\ deltaX' = lastEvent'.value
             /\ \/ deltaX' \in SliderValues
                \/ \E i \in DOMAIN Presets : deltaX' = Presets[i]]_vars

\* both ends of the range are reached: here the lower end, by the slider
C1_Witness ==
    /\ deltaX = Rat(1, 100)
    /\ lastEvent.kind = "slider"
    /\ slope_sek = Rat(201, 100)

\* what the declarations yield when run from scratch on (x, dx)
Derive(x, dx) ==
    LET sek == calc_slope_sek(x, dx)
        tan == calc_slope_tan(x)
        ratio == calc_errorRatio(sek, tan)
    IN  [slope_sek |-> sek, slope_tan |-> tan,
         slopeDisplay |-> calc_slopeDisplay(sek),
         errorDisplay |-> calc_errorDisplay(sek, tan),
         funcPoints |-> calc_funcPoints,
         sekantePoints |-> calc_sekantePoints(x, sek),
         tangentePoints |-> calc_tangentePoints(x, tan),
         px0 |-> calc_px0(x), px1 |-> calc_px1(x, dx),
         errorRatio |-> ratio, errorColor |-> calc_errorColor(ratio)]

\* C2: in every state an event handler can run in, every derived variable
\* holds what the declarations yield for the current (x0, deltaX), whatever
\* the earlier values of deltaX were; an event that sets deltaX to the value
\* it already has leaves every derived variable as it is.
C2_DerivedFromCurrentInput ==
    /\ [](derived = Derive(x0, deltaX))
    /\ [][deltaX' = deltaX => derived' = derived]_vars

\* a preset click that skipped from another value down to 0.1
C2_Witness ==
    /\ lastEvent = [kind |-> "preset", value |-> Rat(1, 10)]
    /\ runOrder # <<>>
    /\ px1 = calc_px1(Num(2), Rat(1, 10))
    /\ px1 # calc_px1(Num(2), Rat(3, 2))

\* the approximation error |slope_sek - slope_tan|
error == Norm(MathAbs(Sub(slope_sek, slope_tan)))

\* C3: with x0 = 2 the secant slope is 2 + deltaX, the tangent slope is 2
\* and the error is deltaX; the secant slope exceeds the tangent slope; an
\* event that lowers deltaX lowers the error; deltaX = 1 gives slope 3 and
\* error 1 (shown as 3.0000, 1.0000), deltaX = 0.01 gives 2.01 and 0.01
\* (shown as 2.0100, 0.0100).
C3_SlopesAndError ==
    /\ [](/\ x0 = Num(2)
          /\ slope_sek = Norm(Add(Num(2), deltaX))
          /\ slope_tan = Num(2)
          /\ error = deltaX
          /\ Less(slope_tan, slope_sek)
          /\ deltaX = Num(1) =>
                /\ slope_sek = Num(3) /\ error = Num(1)
                /\ slopeDisplay = <<30000, 4>> /\ errorDisplay = <<10000, 4>>
          /\ deltaX = Rat(1, 100) =>
                /\ slope_sek = Rat(201, 100) /\ error = Rat(1, 100)
                /\ slopeDisplay = <<20100, 4>> /\ errorDisplay = <<100, 4>>)
    /\ [][Less(deltaX', deltaX) => Less(error', error)]_vars

\* the slider stepped down from 1.01 to 1.0
C3_Witness ==
    /\ lastEvent = [kind |-> "slider", value |-> Num(1)]
    /\ deltaX = Num(1)
    /\ slopeDisplay = <<30000, 4>>
    /\ errorDisplay = <<10000, 4>>

\* 1-based position of a declaration in the last update, 0 when it did not run
pos(t) ==
    IF \E i \in DOMAIN runOrder : runOrder[i] = t
    THEN CHOOSE i \in DOMAIN runOrder : runOrder[i] = t
    ELSE 0

\* the order the specification gives: secant slope, tangent slope, error,
\* error colour, the three polylines, the markers
ClaimedOrder ==
    <<"slope_sek", "slope_tan", "errorDisplay", "errorColor",
      "funcPoints", "sekantePoints", "tangentePoints", "px0", "px1">>

\* C4 as stated: the declarations an update runs are run in ClaimedOrder,
\* in particular the error colour ahead of every polyline and marker.
C4_ClaimedOrder ==
    \A i, j \in DOMAIN ClaimedOrder :
        (i < j /\ pos(ClaimedOrder[i]) > 0 /\ pos(ClaimedOrder[j]) > 0)
            => pos(ClaimedOrder[i]) < pos(ClaimedOrder[j])

\* C4 amended: an event that changes deltaX runs, in this order, secant
\* slope, slope display, error display, secant polyline, marker px1, error
\* ratio, error colour; the error colour is recomputed after the secant
\* polyline and px1, and tangent slope, function polyline, tangent polyline
\* and px0 are not recomputed.  An event that leaves deltaX as it is runs
\* nothing.
C4_SourceOrder ==
    /\ [](runOrder # <<>> =>
            /\ runOrder = <<"slope_sek", "slopeDisplay", "errorDisplay",
                            "sekantePoints", "px1", "errorRatio", "errorColor">>
            /\ pos("sekantePoints") < pos("errorColor")
            /\ pos("px1") < pos("errorColor"))
    /\ [][/\ deltaX' # deltaX => runOrder' # <<>>
          /\ deltaX' = deltaX => runOrder' = runOrder]_vars

\* a slider event changed deltaX and the update ran the error colour last
C4_Witness ==
    /\ lastEvent.kind = "slider"
    /\ deltaX # Rat(3, 2)
    /\ Len(runOrder) = 7
    /\ runOrder[4] = "sekantePoints"
    /\ runOrder[7] = "errorColor"

\* C5: the ratio is min(1, |slope_sek - slope_tan| / 3) and each colour
\* channel is the integer nearest to lo + ratio * (hi - lo): ratio 0 gives
\* rgb(39,174,96), ratio 1 gives rgb(192,57,43), every channel stays in its
\* range 39..192, 57..174, 43..96, and a larger ratio never lowers R nor
\* raises G or B.
C5_ColorInterpolation ==
    result # <<>> =>
      /\ \A i \in 1..2 :
            LET e == MathAbs(Sub(probe[i], Num(2)))
                t == result[i].ratio
                c == result[i].color
            IN  /\ Leq(e, Num(3)) => Norm(Mul(t, Num(3))) = Norm(e)
                /\ Less(Num(3), e) => t = Num(1)
                /\ c[1] \in 39..192 /\ c[2] \in 57..174 /\ c[3] \in 43..96
                /\ Leq(MathAbs(Sub(Num(c[1]), Add(Num(39), Mul(t, Num(153))))),
                       <<1, 2>>)
                /\ Leq(MathAbs(Sub(Num(c[2]), Sub(Num(174), Mul(t, Num(117))))),
                       <<1, 2>>)
                /\ Leq(MathAbs(Sub(Num(c[3]), Sub(Num(96), Mul(t, Num(53))))),
                       <<1, 2>>)
                /\ t = Num(0) => c = <<39, 174, 96>>
                /\ t = Num(1) => c = <<192, 57, 43>>
      /\ \A i, j \in 1..2 :
            Leq(result[i].ratio, result[j].ratio) =>
                /\ result[i].color[1] <= result[j].color[1]
                /\ result[i].color[2] >= result[j].color[2]
                /\ result[i].color[3] >= result[j].color[3]

\* no error against an error of 3.5, where the cap applies
C5_Witness ==
    /\ probe = <<Num(2), Rat(11, 2)>>
    /\ result # <<>>
    /\ result[1] = [ratio |-> Num(0), color |-> <<39, 174, 96>>]
    /\ result[2] = [ratio |-> Num(1), color |-> <<192, 57, 43>>]

\* C6: at most one preset is active; after a click on a preset that preset
\* and no other is active; for a slider value a preset is active exactly
\* when deltaX equals it; no preset is active initially; 0.499 marks 0.5
\* active and 0.51 does not.
C6_ActivePreset ==
    /\ Cardinality(active) <= 1
    /\ lastEvent.kind = "preset" =>
          /\ active # {}
          /\ active = {i \in DOMAIN Presets : Presets[i] = lastEvent.value}
    /\ deltaX \in SliderValues =>
          \A i \in DOMAIN Presets : i \in active <=> deltaX = Presets[i]
    /\ lastEvent.kind = "none" => deltaX = Rat(3, 2) /\ active = {}
    /\ isActive(Rat(499, 1000), Rat(1, 2))
    /\ ~isActive(Rat(51, 100), Rat(1, 2))

\* the 0.5 button was clicked and is the active one
C6_Witness ==
    /\ lastEvent = [kind |-> "preset", value |-> Rat(1, 2)]
    /\ deltaX = Rat(1, 2)
    /\ active = {3}

\* C7: toSvgX(x) = 55 + x / 4 * 525 and toSvgY(y) = 20 + (1 - y / 9) * 330;
\* 0 and 4 map to 55 and 580, y = 0 and y = 9 to 350 and 20; toSvgX is
\* strictly increasing, toSvgY strictly decreasing; a coordinate outside
\* [0,4] (x) or [0,9] (y) maps strictly outside [55,580] or [20,350].
C7_AffineMapper ==
    result # <<>> =>
      /\ \A i \in 1..2 :
            LET a == probe[i]
                r == result[i]
            IN  /\ Norm(Mul(Sub(r.x, Num(55)), Num(4))) = Norm(Mul(a, Num(525)))
                /\ Norm(Mul(Sub(Num(350), r.y), Num(9))) = Norm(Mul(a, Num(330)))
                /\ a = Num(0) => r.x = Num(55) /\ r.y = Num(350)
                /\ a = Num(4) => r.x = Num(580)
                /\ a = Num(9) => r.y = Num(20)
                /\ Less(a, Num(0)) => Less(r.x, Num(55)) /\ Less(Num(350), r.y)
                /\ Less(Num(4), a) => Less(Num(580), r.x)
                /\ Less(Num(9), a) => Less(r.y, Num(20))
                /\ (Leq(Num(0), a) /\ Leq(a, Num(4))) =>
                      Leq(Num(55), r.x) /\ Leq(r.x, Num(580))
                /\ (Leq(Num(0), a) /\ Leq(a, Num(9))) =>
                      Leq(Num(20), r.y) /\ Leq(r.y, Num(350))
      /\ \A i, j \in 1..2 :
            Less(probe[i], probe[j]) =>
                /\ Less(result[i].x, result[j].x)
                /\ Less(result[j].y, result[i].y)

\* -1 and 10 lie outside both ranges and map outside the plot rectangle
C7_Witness ==
    /\ probe = <<Num(-1), Num(10)>>
    /\ result # <<>>
    /\ result[1] = [x |-> Rat(-305, 4), y |-> Rat(1160, 3)]
    /\ result[2] = [x |-> Rat(2735, 2), y |-> Rat(-50, 3)]

\* the i-th sample abscissa, i = 0..299
sample(i) == Rat(4 * i, 299)

\* points is the 300-point sampling of g over [0,4]
C8_Sampled(points, g) ==
    /\ Len(points) = 300
    /\ \A i \in 0..299 :
          points[i + 1] = <<toSvgX(sample(i)), toSvgY(g[sample(i)])>>
    /\ \A k \in 1..299 : Less(points[k][1], points[k + 1][1])
    /\ points[1][1] = Num(55)
    /\ points[300][1] = Num(580)

\* C8: each polyline has 300 points, the i-th being (toSvgX(x_i),
\* toSvgY(g(x_i))) with x_i = i * 4 / 299, drawX strictly increasing from 55
\* (x = 0) to 580 (x = 4); g is f, the secant line through x0 with slope
\* slope_sek, and the tangent line through x0 with slope slope_tan.
C8_PointSequences ==
    /\ C8_Sampled(funcPoints,
                  [t \in Number |-> Norm(Add(Sub(Mul(t, t), Mul(Num(2), t)), Num(3)))])
    /\ C8_Sampled(sekantePoints,
                  [t \in Number |-> Add(f(x0), Mul(slope_sek, Sub(t, x0)))])
    /\ C8_Sampled(tangentePoints,
                  [t \in Number |-> Add(f(x0), Mul(slope_tan, Sub(t, x0)))])

\* slider at 0.5: the secant has slope 2.5 and ends at (4, 8), beyond x0 + deltaX
C8_Witness ==
    /\ lastEvent = [kind |-> "slider", value |-> Rat(1, 2)]
    /\ Len(sekantePoints) = 300
    /\ sekantePoints[1] = <<Num(55), Rat(1270, 3)>>
    /\ sekantePoints[300] = <<Num(580), Rat(170, 3)>>

\* C9: an event leaves x0 (= 2), the tangent slope (= 2), the tangent
\* polyline, the function polyline and px0 as they are and does not rerun
\* their declarations.  (Viewport, drawing rectangle, xs and the ticks are
\* constants of the script and no state.)
C9_Frame ==
    /\ [](x0 = Num(2) /\ slope_tan = Num(2))
    /\ [][/\ x0' = x0
          /\ slope_tan' = slope_tan
          /\ tangentePoints' = tangentePoints
          /\ funcPoints' = funcPoints
          /\ px0' = px0
          /\ \A k \in DOMAIN runOrder' :
                runOrder'[k] \notin
                    {"slope_tan", "tangentePoints", "funcPoints", "px0"}]_vars

\* a click on 2.0 moved px1 and left px0 at (x0, f(x0)) = (2, 3)
C9_Witness ==
    /\ lastEvent = [kind |-> "preset", value |-> Num(2)]
    /\ deltaX = Num(2)
    /\ px0 = [x |-> Rat(635, 2), y |-> Num(240)]
    /\ px1.x = Num(580)

\* C10: every argument f is called with lies in [0,4]; x0 + deltaX lies in
\* [2.01, 4], and is 4 when deltaX is 2.
C10_DomainOfF ==
    /\ \A a \in fArgs : Leq(Num(0), a) /\ Leq(a, Num(4))
    /\ x0 = Num(2)
    /\ Leq(Rat(201, 100), Add(x0, deltaX))
    /\ Leq(Add(x0, deltaX), Num(4))
    /\ deltaX = Num(2) => Norm(Add(x0, deltaX)) = Num(4)
    /\ Cardinality(fArgs) \in {300, 301, 302}

\* slider at its maximum: f is called at 4, the right edge
C10_Witness ==
    /\ lastEvent = [kind |-> "slider", value |-> Num(2)]
    /\ Norm(Add(x0, deltaX)) = Num(4)
    /\ Norm(Add(x0, deltaX)) \in fArgs

\* a point with coordinates x, y lies in the rectangle [l, r] x [t, b]
inRect(p, l, r, t, b) ==
    /\ Leq(Num(l), p.x) /\ Leq(p.x, Num(r))
    /\ Leq(Num(t), p.y) /\ Leq(p.y, Num(b))

\* C11: in every reachable state the markers px0 and px1 lie inside the
\* plot rectangle 55 <= x <= 580, 20 <= y <= 350 and therefore inside the
\* drawing surface 0 <= x <= 600, 0 <= y <= 400.
C11_MarkersInPlot ==
    /\ inRect(px0, PAD.left, PAD.left + plotW, PAD.top, PAD.top + plotH)
    /\ inRect(px1, PAD.left, PAD.left + plotW, PAD.top, PAD.top + plotH)
    /\ inRect(px0, 0, VW, 0, VH)
    /\ inRect(px1, 0, VW, 0, VH)

\* C12: the error ratio equals deltaX / 3 and lies in [0.01/3, 2/3]; the
\* cap at 1 does not take effect; the ratio is neither 0 nor 1; neither
\* end colour is shown; the colour is rgb(40,174,96) at deltaX = 0.01 and
\* rgb(141,96,61) at deltaX = 2, and every channel lies between these.
C12_ErrorRatioRange ==
    /\ Norm(Mul(errorRatio, Num(3))) = deltaX
    /\ Leq(Rat(1, 300), errorRatio)
    /\ Leq(errorRatio, Rat(2, 3))
    /\ Less(Div(MathAbs(Sub(slope_sek, slope_tan)), Num(3)), Num(1))
    /\ errorRatio # Num(0)
    /\ errorRatio # Num(1)
    /\ errorColor # <<39, 174, 96>>
    /\ errorColor # <<192, 57, 43>>
    /\ deltaX = Rat(1, 100) => errorColor = <<40, 174, 96>>
    /\ deltaX = Num(2) => errorColor = <<141, 96, 61>>
    /\ errorColor[1] \in 40..141
    /\ errorColor[2] \in 96..174
    /\ errorColor[3] \in 61..96

\* the slider reached its maximum: ratio 2/3 and the reddest colour shown
C12_Witness ==
    /\ lastEvent = [kind |-> "slider", value |-> Num(2)]
    /\ errorRatio = Rat(2, 3)
    /\ errorColor = <<141, 96, 61>>
=============================================================================
